---- MODULE Spec2Model ----
(***************************************************************************)
(* iCloud+ pricing: the query side (the cache resolver getPriceData and    *)
(* the entry point run) and the collection side (main: exchange rates,     *)
(* price source, conversion to CNY, ranking, output, and fetchURL with its  *)
(* redirects).                                                             *)
(*                                                                         *)
(* Conventions of the model                                                *)
(*  - a JavaScript string that the code inspects character by character    *)
(*    (region codes, names, query tokens, plan names) is a sequence of     *)
(*    one-character strings; a file's text is an opaque token whose parse  *)
(*    is given by JSONParse;                                               *)
(*  - a price is an exact decimal, held as an integer number of            *)
(*    thousandths (PriceScale); an exchange rate is an integer number of   *)
(*    tenths of a currency unit per USD;                                   *)
(*  - times are milliseconds since the epoch, as Date.now() and            *)
(*    getFileMtime give them; the clock is at least one cacheTTL past the  *)
(*    epoch.                                                               *)
(***************************************************************************)
EXTENDS Integers, Sequences, FiniteSets, TLC

(* ------------------------------ bounds -------------------------------- *)
\* the clock advances at most MaxTicks times, half a TTL at a time
MaxTicks == 2
\* the scrape returns at most MaxScraped regions
MaxScraped == 3

(* ----------------------- configuration (CONFIG) ----------------------- *)
cacheTTL == 3600000
TickMs == cacheTTL \div 2
StartMs == 2 * cacheTTL
Times == { StartMs + k * TickMs : k \in 0..MaxTicks }

(* ------------------------------ strings ------------------------------- *)
LowerLetters == << "a","b","c","d","e","f","g","h","i","j","k","l","m",
                   "n","o","p","q","r","s","t","u","v","w","x","y","z" >>
UpperLetters == << "A","B","C","D","E","F","G","H","I","J","K","L","M",
                   "N","O","P","Q","R","S","T","U","V","W","X","Y","Z" >>

UpperChar(c) ==
    IF \E i \in 1..26 : LowerLetters[i] = c
    THEN UpperLetters[CHOOSE i \in 1..26 : LowerLetters[i] = c]
    ELSE c

LowerChar(c) ==
    IF \E i \in 1..26 : UpperLetters[i] = c
    THEN LowerLetters[CHOOSE i \in 1..26 : UpperLetters[i] = c]
    ELSE c

toUpperCase(s) == [ i \in 1..Len(s) |-> UpperChar(s[i]) ]
toLowerCase(s) == [ i \in 1..Len(s) |-> LowerChar(s[i]) ]

\* s.indexOf(q) !== -1
Contains(s, q) ==
    \E k \in 0..(Len(s) - Len(q)) : \A i \in 1..Len(q) : s[k + i] = q[i]

\* the value of a missing string field
UndefStr == << "undefined" >>
\* the value of a missing number field
Undefined == 0 - 1
\* searchQuery = null
NoQuery == << "null" >>

(* --------------------------- stored documents -------------------------- *)
P50 == << "5","0","G","B" >>
P200 == << "2","0","0","G","B" >>
P2T == << "2","T","B" >>
P6T == << "6","T","B" >>
P12T == << "1","2","T","B" >>

Plan(n, p, c) == [ Name |-> n, Price |-> p, PriceInCNY |-> c ]

\* a plan as the price source gives it, before conversion
Raw(n, p) == Plan(n, p, Undefined)

Region(iso, country, cur, plans) ==
    [ CountryISO |-> iso, Country |-> country, Currency |-> cur,
      hasPlans |-> TRUE, Plans |-> plans ]

CN == Region(<<"C","N">>, <<"C","h","i","n","a">>, "CNY",
             << Plan(P50, 6000, 6000), Plan(P200, 21000, 21000) >>)
US == Region(<<"U","S">>, <<"U","n","i","t","e","d"," ","S","t","a","t","e","s">>, "USD",
             << Plan(P50, 990, 7130), Plan(P200, 2990, 21530) >>)
JP == Region(<<"J","P">>, <<"J","a","p","a","n">>, "JPY",
             << Plan(P50, 150000, 7200) >>)
AU == Region(<<"A","U">>, <<"A","u","s","t","r","a","l","i","a">>, "AUD",
             << Plan(P200, 4490, 21000), Plan(P50, 1490, 7130) >>)

\* a region that has no 50GB plan, and a region whose 50GB plan costs nothing
IND == Region(<<"I","N">>, <<"I","n","d","i","a">>, "INR",
             << Plan(P200, 219000, 18900) >>)
TR == Region(<<"T","R">>, <<"T","u","r","k","e","y">>, "TRY",
             << Plan(P50, 0, 0), Plan(P200, 199990, 21000) >>)

\* a region object without its Plans field
NoPlansRegion ==
    [ CountryISO |-> <<"U","S">>, Country |-> <<"U","S","A">>, Currency |-> "USD",
      hasPlans |-> FALSE, Plans |-> << >> ]
\* a region whose plan has no PriceInCNY field
NoCNYRegion ==
    Region(<<"J","P">>, <<"J","a","p","a","n">>, "JPY", << Plan(P50, 150000, Undefined) >>)
\* a region object without CountryISO and Country
NoNameRegion ==
    [ CountryISO |-> UndefStr, Country |-> UndefStr, Currency |-> "USD",
      hasPlans |-> TRUE, Plans |-> << Plan(P50, 990, 7130) >> ]

\* a parsed JSON value: null, or an object with (or without) the dataset's fields;
\* regionsKind is "absent", "array" or "other" (a truthy value that is no array)
Doc(updated, kind, regions) ==
    [ isNull |-> FALSE, lastUpdated |-> updated, regionsKind |-> kind, regions |-> regions ]

NullValue ==
    [ isNull |-> TRUE, lastUpdated |-> "undefined", regionsKind |-> "absent", regions |-> << >> ]

\* the file texts of the model: the empty text, a text that is no JSON, and JSON texts
ValidTexts == { "null", "docA", "docB", "noPlans" }
Texts == { "", "{bad" } \cup ValidTexts
\* further JSON texts, for run called on what getPriceData can return
RunTexts ==
    ValidTexts \cup { "noRegions", "emptyRegions", "regionsNotArray", "noCNY", "noNames",
                      "docOne", "docMix" }

\* JSON.parse(text): whether it returns, and what
JSONParse(text) ==
    CASE text = "null" -> [ ok |-> TRUE, val |-> NullValue ]
      [] text = "docA" -> [ ok |-> TRUE, val |-> Doc("2024-01-01", "array", << CN, US, AU, JP >>) ]
      [] text = "docB" -> [ ok |-> TRUE, val |-> Doc("2024-02-02", "array", << CN, JP >>) ]
      [] text = "docOne" -> [ ok |-> TRUE, val |-> Doc("2024-03-03", "array", << JP >>) ]
      [] text = "docMix" -> [ ok |-> TRUE, val |-> Doc("2024-03-03", "array", << IND, US, TR, CN >>) ]
      [] text = "noRegions" -> [ ok |-> TRUE, val |-> Doc("2024-01-01", "absent", << >>) ]
      [] text = "emptyRegions" -> [ ok |-> TRUE, val |-> Doc("undefined", "array", << >>) ]
      [] text = "regionsNotArray" -> [ ok |-> TRUE, val |-> Doc("2024-01-01", "other", << >>) ]
      [] text = "noPlans" -> [ ok |-> TRUE, val |-> Doc("2024-01-01", "array", << NoPlansRegion >>) ]
      [] text = "noCNY" -> [ ok |-> TRUE, val |-> Doc("2024-01-01", "array", << CN, NoCNYRegion >>) ]
      [] text = "noNames" -> [ ok |-> TRUE, val |-> Doc("undefined", "array", << NoNameRegion, CN >>) ]
      [] OTHER -> [ ok |-> FALSE, val |-> NullValue ]

\* readFile's null
Null == "<null>"
\* JavaScript truthiness of a string-or-null
Truthy(t) == t # Null /\ t # ""


(* ------------------- the collection side: conversion ------------------ *)
\* prices are held in thousandths
PriceScale == 10 * 100

\* an exact number num / den, in thousandths
Rat(num, den) == [ num |-> num, den |-> den ]

\* rates[currency]: the rate in tenths, Undefined when the table has no entry
Lookup(rates, currency) ==
    IF currency \in DOMAIN rates THEN rates[currency] ELSE Undefined

\* !rate: undefined and 0 are falsy
Falsy(rate) == rate = Undefined \/ rate = 0

\* the conversion that does not look at the CNY rate before using it
convertToCNYUnchecked(price, currency, rates) ==
    IF currency = "CNY" THEN Rat(price, 1)
    ELSE IF Falsy(Lookup(rates, currency)) THEN Rat(price, 1)
    ELSE Rat(price * Lookup(rates, "CNY"), Lookup(rates, currency))

\* convertToCNY(price, currency, rates)
convertToCNY(price, currency, rates) ==
    IF currency = "CNY" THEN Rat(price, 1)
    ELSE IF Falsy(Lookup(rates, currency)) \/ Falsy(Lookup(rates, "CNY")) THEN Rat(price, 1)
    ELSE Rat(price * Lookup(rates, "CNY"), Lookup(rates, currency))

\* rounding that cuts the digits off instead
Floor2(x) ==
    LET d == x.den * (PriceScale \div 100)
    IN  (x.num \div d) * (PriceScale \div 100)

\* Math.round(x * 100) / 100, Math.round being floor(y + 1/2)
Round2(x) ==
    LET d == x.den * (PriceScale \div 100)
    IN  ((x.num \div d) + (IF 2 * (x.num % d) >= d THEN 1 ELSE 0)) * (PriceScale \div 100)

\* lines 395-401: every plan gets its PriceInCNY
Normalize(regions, rates) ==
    [ i \in 1..Len(regions) |->
        [ regions[i] EXCEPT !.Plans =
            [ j \in 1..Len(regions[i].Plans) |->
                [ regions[i].Plans[j] EXCEPT !.PriceInCNY =
                    Round2(convertToCNY(regions[i].Plans[j].Price, regions[i].Currency, rates)) ] ] ] ]

\* the values convertToCNY returned, plan by plan
Conversions(regions, rates) ==
    [ i \in 1..Len(regions) |->
        [ j \in 1..Len(regions[i].Plans) |->
            convertToCNY(regions[i].Plans[j].Price, regions[i].Currency, rates) ] ]

\* getFallbackData: the embedded table, in its order
getFallbackData ==
    << Region(<<"U","S">>, <<"U","n","i","t","e","d"," ","S","t","a","t","e","s">>, "USD",
              << Raw(P50, 990), Raw(P200, 2990), Raw(P2T, 9990), Raw(P6T, 29990), Raw(P12T, 59990) >>),
       Region(<<"C","N">>, <<"C","h","i","n","a">>, "CNY",
              << Raw(P50, 6000), Raw(P200, 21000), Raw(P2T, 68000), Raw(P6T, 198000), Raw(P12T, 398000) >>),
       Region(<<"J","P">>, <<"J","a","p","a","n">>, "JPY",
              << Raw(P50, 150000), Raw(P200, 450000), Raw(P2T, 1500000), Raw(P6T, 4500000), Raw(P12T, 9000000) >>),
       Region(<<"G","B">>, <<"U","n","i","t","e","d"," ","K","i","n","g","d","o","m">>, "GBP",
              << Raw(P50, 990), Raw(P200, 2990), Raw(P2T, 8990), Raw(P6T, 26990), Raw(P12T, 54990) >>),
       Region(<<"D","E">>, <<"G","e","r","m","a","n","y">>, "EUR",
              << Raw(P50, 990), Raw(P200, 2990), Raw(P2T, 9990), Raw(P6T, 29990), Raw(P12T, 59990) >>),
       Region(<<"F","R">>, <<"F","r","a","n","c","e">>, "EUR",
              << Raw(P50, 990), Raw(P200, 2990), Raw(P2T, 9990), Raw(P6T, 29990), Raw(P12T, 59990) >>),
       Region(<<"A","U">>, <<"A","u","s","t","r","a","l","i","a">>, "AUD",
              << Raw(P50, 1490), Raw(P200, 4490), Raw(P2T, 14990), Raw(P6T, 44990), Raw(P12T, 89990) >>),
       Region(<<"C","A">>, <<"C","a","n","a","d","a">>, "CAD",
              << Raw(P50, 1290), Raw(P200, 3990), Raw(P2T, 12990), Raw(P6T, 39990), Raw(P12T, 79990) >>),
       Region(<<"K","R">>, <<"S","o","u","t","h"," ","K","o","r","e","a">>, "KRW",
              << Raw(P50, 1100000), Raw(P200, 3300000), Raw(P2T, 11000000), Raw(P6T, 33000000), Raw(P12T, 66000000) >>),
       Region(<<"H","K">>, <<"H","o","n","g"," ","K","o","n","g">>, "HKD",
              << Raw(P50, 8000), Raw(P200, 23000), Raw(P2T, 78000), Raw(P6T, 233000), Raw(P12T, 468000) >>),
       Region(<<"T","W">>, <<"T","a","i","w","a","n">>, "TWD",
              << Raw(P50, 30000), Raw(P200, 90000), Raw(P2T, 300000), Raw(P6T, 900000), Raw(P12T, 1800000) >>),
       Region(<<"S","G">>, <<"S","i","n","g","a","p","o","r","e">>, "SGD",
              << Raw(P50, 1280), Raw(P200, 3980), Raw(P2T, 12980), Raw(P6T, 38980), Raw(P12T, 78980) >>),
       Region(<<"I","N">>, <<"I","n","d","i","a">>, "INR",
              << Raw(P50, 75000), Raw(P200, 219000), Raw(P2T, 749000), Raw(P6T, 2249000), Raw(P12T, 4499000) >>),
       Region(<<"R","U">>, <<"R","u","s","s","i","a">>, "RUB",
              << Raw(P50, 59000), Raw(P200, 149000), Raw(P2T, 599000), Raw(P6T, 1790000), Raw(P12T, 3590000) >>),
       Region(<<"T","R">>, <<"T","u","r","k","e","y">>, "TRY",
              << Raw(P50, 14990), Raw(P200, 44990), Raw(P2T, 149990), Raw(P6T, 449990), Raw(P12T, 899990) >>),
       Region(<<"B","R">>, <<"B","r","a","z","i","l">>, "BRL",
              << Raw(P50, 3500), Raw(P200, 10900), Raw(P2T, 34900), Raw(P6T, 104900), Raw(P12T, 209900) >>),
       Region(<<"M","X">>, <<"M","e","x","i","c","o">>, "MXN",
              << Raw(P50, 17000), Raw(P200, 49000), Raw(P2T, 179000), Raw(P6T, 529000), Raw(P12T, 1049000) >>),
       Region(<<"I","D">>, <<"I","n","d","o","n","e","s","i","a">>, "IDR",
              << Raw(P50, 15000000), Raw(P200, 45000000), Raw(P2T, 149000000), Raw(P6T, 449000000), Raw(P12T, 899000000) >>),
       Region(<<"T","H">>, <<"T","h","a","i","l","a","n","d">>, "THB",
              << Raw(P50, 35000), Raw(P200, 99000), Raw(P2T, 349000), Raw(P6T, 1049000), Raw(P12T, 2099000) >>),
       Region(<<"M","Y">>, <<"M","a","l","a","y","s","i","a">>, "MYR",
              << Raw(P50, 3900), Raw(P200, 11900), Raw(P2T, 39900), Raw(P6T, 119900), Raw(P12T, 239900) >>),
       Region(<<"P","H">>, <<"P","h","i","l","i","p","p","i","n","e","s">>, "PHP",
              << Raw(P50, 49000), Raw(P200, 149000), Raw(P2T, 499000), Raw(P6T, 1490000), Raw(P12T, 2990000) >>),
       Region(<<"V","N">>, <<"V","i","e","t","n","a","m">>, "VND",
              << Raw(P50, 19000000), Raw(P200, 59000000), Raw(P2T, 199000000), Raw(P6T, 599000000), Raw(P12T, 1190000000) >>),
       Region(<<"A","E">>, <<"U","n","i","t","e","d"," ","A","r","a","b"," ","E","m","i","r","a","t","e","s">>, "AED",
              << Raw(P50, 3990), Raw(P200, 10990), Raw(P2T, 36990), Raw(P6T, 109990), Raw(P12T, 219990) >>),
       Region(<<"S","A">>, <<"S","a","u","d","i"," ","A","r","a","b","i","a">>, "SAR",
              << Raw(P50, 3990), Raw(P200, 10990), Raw(P2T, 36990), Raw(P6T, 109990), Raw(P12T, 219990) >>),
       Region(<<"Z","A">>, <<"S","o","u","t","h"," ","A","f","r","i","c","a">>, "ZAR",
              << Raw(P50, 14990), Raw(P200, 44990), Raw(P2T, 149990), Raw(P6T, 449990), Raw(P12T, 899990) >>),
       Region(<<"I","L">>, <<"I","s","r","a","e","l">>, "ILS",
              << Raw(P50, 3900), Raw(P200, 10900), Raw(P2T, 34900), Raw(P6T, 109900), Raw(P12T, 219900) >>),
       Region(<<"P","L">>, <<"P","o","l","a","n","d">>, "PLN",
              << Raw(P50, 3990), Raw(P200, 11990), Raw(P2T, 39990), Raw(P6T, 119990), Raw(P12T, 239990) >>),
       Region(<<"S","E">>, <<"S","w","e","d","e","n">>, "SEK",
              << Raw(P50, 9000), Raw(P200, 29000), Raw(P2T, 99000), Raw(P6T, 299000), Raw(P12T, 599000) >>),
       Region(<<"N","O">>, <<"N","o","r","w","a","y">>, "NOK",
              << Raw(P50, 12000), Raw(P200, 35000), Raw(P2T, 119000), Raw(P6T, 355000), Raw(P12T, 709000) >>),
       Region(<<"D","K">>, <<"D","e","n","m","a","r","k">>, "DKK",
              << Raw(P50, 7000), Raw(P200, 19000), Raw(P2T, 69000), Raw(P6T, 199000), Raw(P12T, 399000) >>),
       Region(<<"C","H">>, <<"S","w","i","t","z","e","r","l","a","n","d">>, "CHF",
              << Raw(P50, 1000), Raw(P200, 3000), Raw(P2T, 10000), Raw(P6T, 30000), Raw(P12T, 60000) >>),
       Region(<<"N","Z">>, <<"N","e","w"," ","Z","e","a","l","a","n","d">>, "NZD",
              << Raw(P50, 1690), Raw(P200, 4990), Raw(P2T, 16990), Raw(P6T, 49990), Raw(P12T, 99990) >>),
       Region(<<"C","L">>, <<"C","h","i","l","e">>, "CLP",
              << Raw(P50, 800000), Raw(P200, 2500000), Raw(P2T, 7900000), Raw(P6T, 23900000), Raw(P12T, 47900000) >>),
       Region(<<"C","O">>, <<"C","o","l","o","m","b","i","a">>, "COP",
              << Raw(P50, 3400000), Raw(P200, 10900000), Raw(P2T, 34900000), Raw(P6T, 104900000), Raw(P12T, 209900000) >>),
       Region(<<"P","E">>, <<"P","e","r","u">>, "PEN",
              << Raw(P50, 2900), Raw(P200, 9900), Raw(P2T, 34900), Raw(P6T, 99900), Raw(P12T, 199900) >>),
       Region(<<"E","G">>, <<"E","g","y","p","t">>, "EGP",
              << Raw(P50, 24990), Raw(P200, 74990), Raw(P2T, 249990), Raw(P6T, 749990), Raw(P12T, 1499990) >>),
       Region(<<"N","G">>, <<"N","i","g","e","r","i","a">>, "NGN",
              << Raw(P50, 900000), Raw(P200, 2900000), Raw(P2T, 9900000), Raw(P6T, 29900000), Raw(P12T, 59900000) >>),
       Region(<<"P","K">>, <<"P","a","k","i","s","t","a","n">>, "PKR",
              << Raw(P50, 200000), Raw(P200, 600000), Raw(P2T, 2000000), Raw(P6T, 6000000), Raw(P12T, 12000000) >>)
    >>


(* ------------------------------ variables ----------------------------- *)
VARIABLES
    now,        \* the clock, Date.now()
    dirExists,  \* whether the cache directory exists
    cache,      \* the cache file: [exists, content, mtime]
    localFile,  \* the bundled data file's text, or Null when there is none
    pc,         \* where the running query is
    argv,       \* run's argument list
    mtime,      \* getPriceData's local mtime
    attempts,   \* the sources getPriceData has tried, in order, with what each gave
    cache0,     \* the cache file as it was when getPriceData was entered
    wrote,      \* the writeFile calls of the running getPriceData: [text, ok]
    result,     \* what getPriceData returned
    output,     \* what run returned
    prev,       \* the cache write of the getPriceData call before: [set, text, at, data]
    faults,     \* the cache file accesses that failed in the running call
    mpc,          \* where the collection run (main) is
    isDryRun,     \* --dry-run was given
    ratesOutcome, \* how getExchangeRates ended: [kind, table]
    scraped,      \* how the scrape ended: [kind, regions]
    sourceLog,    \* the price-source strategies tried, in order
    regions,      \* main's regions
    converted,    \* what convertToCNY returned for each plan
    dataset,      \* result.regions
    outDirExists, \* whether the output directory exists
    outFile,      \* the output file: [exists, regions]
    writeResult,  \* how the output step ended
    exitCode,     \* the process's exit code, Undefined while it runs
    convIn,       \* a call of convertToCNY: [price, currency, rates]
    convOut,      \* what that call returned: [done, value]
    server,       \* how the server answers a request, for each URL
    fpc,          \* where the fetchURL chain is: a request made, a request sent, or ended
    furl,         \* the URL of the chain's latest request
    promise,      \* the promise the first fetchURL call returned
    requests,     \* the requests made so far, counted up to MaxRequests
    idleSocket    \* a redirect response was left unread on a connection kept open

qvars == << now, dirExists, cache, localFile, pc, argv, mtime, attempts, cache0, wrote, result, output,
            prev, faults >>
cvars == << mpc, isDryRun, ratesOutcome, scraped, sourceLog, regions, converted, dataset,
            outDirExists, outFile, writeResult, exitCode >>
hvars == << convIn, convOut >>
fvars == << server, fpc, furl, promise, requests, idleSocket >>
vars == << qvars, cvars, hvars, fvars >>

\* no cache write to remember
NoPrev == [ set |-> FALSE, text |-> Null, at |-> 0, data |-> NullValue ]

NoCache == [ exists |-> FALSE, content |-> Null, mtime |-> 0 ]
File(text, t) == [ exists |-> TRUE, content |-> text, mtime |-> t ]

Sources == << "cache", "local", "remote", "stale" >>
Attempt(src, text) == [ src |-> src, text |-> text, ok |-> Truthy(text) /\ JSONParse(text).ok ]

(* ------------------------- file helpers (JXA) ------------------------- *)
\* ensureDir: the directory exists afterwards unless creating it failed
ensureDir(exists, mkdirOK) == exists \/ mkdirOK

\* readFile: the text, or null when the file is missing or cannot be read
readFile(exists, text, readOK) == IF exists /\ readOK THEN text ELSE Null

\* writeFile: the file replaced as a whole, or left as it was when the write fails
writeFile(file, dir, text, t, writeOK) == IF dir /\ writeOK THEN File(text, t) ELSE file

\* one writeFile call, as recorded in wrote
Written(text, dir, writeOK) == [ text |-> text, ok |-> dir /\ writeOK ]

\* getFileMtime: 0 for a missing file or unreadable attributes
getFileMtime(file, statOK) == IF file.exists /\ statOK THEN file.mtime ELSE 0

\* a freshness check that takes the TTL for seconds
IsFreshSeconds(t, m) == m # 0 /\ (t - m) < cacheTTL \div 1000

\* a freshness check that forgets the TTL
IsFreshNoTTL(t, m) == m # 0

\* mtime && (now - mtime) < CONFIG.cacheTTL
IsFresh(t, m) == m # 0 /\ (t - m) < cacheTTL


(* --------------------------- run: the query --------------------------- *)
PLAN_TYPES == << <<"5","0","g","b">>, <<"2","0","0","g","b">>, <<"2","t","b">>,
                 <<"6","t","b">>, <<"1","2","t","b">> >>

\* argv.join(' ')
RECURSIVE Join(_)
Join(a) ==
    IF Len(a) = 0 THEN << >>
    ELSE IF Len(a) = 1 THEN a[1]
    ELSE a[1] \o << " " >> \o Join(Tail(a))

\* String.prototype.trim, for the blank as the only white space
RECURSIVE Trim(_)
Trim(s) ==
    IF Len(s) = 0 THEN s
    ELSE IF s[1] = " " THEN Trim(Tail(s))
    ELSE IF s[Len(s)] = " " THEN Trim(SubSeq(s, 1, Len(s) - 1))
    ELSE s

\* query.split(/\s+/).filter(p => p.length > 0): cur is the part being read
RECURSIVE Split(_, _)
Split(s, cur) ==
    IF Len(s) = 0 THEN (IF Len(cur) > 0 THEN << cur >> ELSE << >>)
    ELSE IF s[1] = " " THEN (IF Len(cur) > 0 THEN << cur >> ELSE << >>) \o Split(Tail(s), << >>)
    ELSE Split(Tail(s), Append(cur, s[1]))

Query(a) == Trim(toLowerCase(Join(a)))

IsHelp(a) == Query(a) = << "h","e","l","p" >> \/ Query(a) = << "?" >>

IsPlanType(part) == \E i \in 1..Len(PLAN_TYPES) : PLAN_TYPES[i] = part

\* parts.forEach: the last plan keyword and the last other token of two or more characters
RECURSIVE ParseParts(_, _)
ParseParts(parts, acc) ==
    IF Len(parts) = 0 THEN acc
    ELSE ParseParts(Tail(parts),
            IF IsPlanType(parts[1]) THEN [ acc EXCEPT !.selectedPlan = toUpperCase(parts[1]) ]
            ELSE IF Len(parts[1]) >= 2 THEN [ acc EXCEPT !.searchQuery = parts[1] ]
            ELSE acc)

\* selectedPlan and searchQuery, with the default plan
Parsed(a) ==
    LET acc == ParseParts(Split(Query(a), << >>), [ selectedPlan |-> << >>, searchQuery |-> NoQuery ])
    IN  [ acc EXCEPT !.selectedPlan = IF acc.selectedPlan = << >> THEN P50 ELSE acc.selectedPlan ]

RegionMatches(r, q) ==
    \/ Contains(toUpperCase(r.CountryISO), toUpperCase(q))
    \/ Contains(toUpperCase(r.Country), toUpperCase(q))

\* filterRegions raises a TypeError: toUpperCase of an undefined field
FilterThrows(rs, q) ==
    /\ q # NoQuery
    /\ \E i \in 1..Len(rs) :
          \/ rs[i].CountryISO = UndefStr
          \/ /\ ~Contains(toUpperCase(rs[i].CountryISO), toUpperCase(q))
             /\ rs[i].Country = UndefStr

filterRegions(rs, q) ==
    IF q = NoQuery THEN rs
    ELSE SelectSeq(rs, LAMBDA r : RegionMatches(r, q))

\* Plans.find(p => p.Name === name): the index of the first such plan, 0 for undefined
FindPlan(plans, name) ==
    IF \E i \in 1..Len(plans) : plans[i].Name = name
    THEN CHOOSE i \in 1..Len(plans) :
            /\ plans[i].Name = name
            /\ \A j \in 1..(i - 1) : plans[j].Name # name
    ELSE 0

\* a sort key: a number, Infinity, or NaN (an undefined PriceInCNY)
Key(kind, v) == [ kind |-> kind, v |-> v ]

\* priceA - priceB as the sort sees it: negative, zero (NaN counts as zero) or positive
Compare(ka, kb) ==
    CASE ka.kind = "nan" \/ kb.kind = "nan" -> 0
      [] ka.kind = "inf" /\ kb.kind = "inf" -> 0
      [] ka.kind = "inf" -> 1
      [] kb.kind = "inf" -> 0 - 1
      [] OTHER -> ka.v - kb.v

\* Array.prototype.sort on elements paired with their keys, stable: x goes after the
\* last element that does not compare greater
RECURSIVE InsertStable(_, _)
InsertStable(sorted, x) ==
    IF Len(sorted) = 0 THEN << x >>
    ELSE IF Compare(sorted[Len(sorted)].key, x.key) <= 0 THEN Append(sorted, x)
    ELSE Append(InsertStable(SubSeq(sorted, 1, Len(sorted) - 1), x), sorted[Len(sorted)])

RECURSIVE StableSort(_)
StableSort(s) ==
    IF Len(s) = 0 THEN << >>
    ELSE InsertStable(StableSort(SubSeq(s, 1, Len(s) - 1)), s[Len(s)])

\* sortByPrice's key: planA ? planA.PriceInCNY : Infinity
QueryKey(r, planName) ==
    LET i == FindPlan(r.Plans, planName)
    IN  IF i = 0 THEN Key("inf", 0)
        ELSE IF r.Plans[i].PriceInCNY = Undefined THEN Key("nan", 0)
        ELSE Key("num", r.Plans[i].PriceInCNY)

\* sortByPrice without its sort call
sortByPriceUnsorted(rs, planName) == rs

\* lines 661-669: a copy of the regions, sorted by the plan's PriceInCNY
sortByPrice(rs, planName) ==
    LET keyed == [ i \in 1..Len(rs) |-> [ key |-> QueryKey(rs[i], planName), val |-> rs[i] ] ]
        sorted == StableSort(keyed)
    IN  [ i \in 1..Len(rs) |-> sorted[i].val ]

\* createItem raises a TypeError: getFlag of an undefined code, toFixed of an undefined price
ItemThrows(region, plan) ==
    \/ region.CountryISO = UndefStr
    \/ plan.Price = Undefined
    \/ plan.PriceInCNY = Undefined

createItem(region, plan, planName, rank) ==
    [ uid |-> region.CountryISO \o << "-" >> \o planName,
      plan |-> planName, rank |-> rank, arg |-> plan.PriceInCNY ]

\* the trailing item that shows data.lastUpdated
UpdatedItem == [ uid |-> << >>, plan |-> << >>, rank |-> "", arg |-> 0 ]

Out(kind, items) == [ kind |-> kind, items |-> items ]
NoOutput == Out("none", << >>)
helpOutput == Out("help", << >>)
errorOutput == Out("error", << >>)
NotFound == Out("notfound", << >>)
Thrown == Out("throw", << >>)

\* the items of one region numbered like a ranking
SingleItemsRanked(region) ==
    [ i \in 1..Len(region.Plans) |->
        createItem(region, region.Plans[i], region.Plans[i].Name, ToString(i)) ]

\* the items of one region: every plan, rank '-'
SingleItems(region) ==
    [ i \in 1..Len(region.Plans) |->
        createItem(region, region.Plans[i], region.Plans[i].Name, "-") ]

\* the items of the ranking: the rs that have the plan, rank idx + 1
RECURSIVE RankItems(_, _, _)
RankItems(sorted, planName, idx) ==
    IF idx > Len(sorted) THEN << >>
    ELSE LET region == sorted[idx]
             i == FindPlan(region.Plans, planName)
         IN  (IF i = 0 THEN << >>
              ELSE << createItem(region, region.Plans[i], planName, ToString(idx)) >>)
             \o RankItems(sorted, planName, idx + 1)

\* run(argv), given what getPriceData returned
RunOutput(a, data) ==
    LET p == Parsed(a)
        filtered == filterRegions(data.regions, p.searchQuery)
        footer == IF data.lastUpdated # "undefined" THEN << UpdatedItem >> ELSE << >>
    IN  IF IsHelp(a) THEN helpOutput
        ELSE IF data.isNull \/ data.regionsKind = "absent"
                \/ (data.regionsKind = "array" /\ Len(data.regions) = 0) THEN errorOutput
        ELSE IF data.regionsKind # "array" THEN Thrown
        ELSE IF FilterThrows(data.regions, p.searchQuery) THEN Thrown
        ELSE IF Len(filtered) = 0 THEN NotFound
        ELSE IF p.searchQuery # NoQuery /\ Len(filtered) = 1
        THEN IF ~filtered[1].hasPlans THEN Thrown
             ELSE IF \E i \in 1..Len(filtered[1].Plans) : ItemThrows(filtered[1], filtered[1].Plans[i])
             THEN Thrown
             ELSE Out("items", SingleItems(filtered[1]) \o footer)
        ELSE IF \E i \in 1..Len(filtered) : ~filtered[i].hasPlans THEN Thrown
             ELSE IF \E i \in 1..Len(filtered) :
                        LET k == FindPlan(filtered[i].Plans, p.selectedPlan)
                        IN  k # 0 /\ ItemThrows(filtered[i], filtered[i].Plans[k])
             THEN Thrown
             ELSE Out("items", RankItems(sortByPrice(filtered, p.selectedPlan), p.selectedPlan, 1) \o footer)


(* -------------------- the collection side: main ----------------------- *)
\* line 406: Plans.find(p => p.Name === '50GB')?.PriceInCNY || Infinity
MainKey(r) ==
    LET i == FindPlan(r.Plans, P50)
    IN  IF i = 0 THEN Key("inf", 0)
        ELSE IF r.Plans[i].PriceInCNY = 0 THEN Key("inf", 0)
        ELSE Key("num", r.Plans[i].PriceInCNY)

\* lines 405-409: result.regions.sort by the 50GB price
SortDataset(rs) ==
    LET keyed == [ i \in 1..Len(rs) |-> [ key |-> MainKey(rs[i]), val |-> rs[i] ] ]
        sorted == StableSort(keyed)
    IN  [ i \in 1..Len(rs) |-> sorted[i].val ]

\* the rate tables the exchange-rate API can answer with, in tenths per USD
RateTables ==
    { ("USD" :> 10 @@ "CNY" :> 72 @@ "JPY" :> 1500),
      ("USD" :> 10 @@ "CNY" :> 72),
      ("USD" :> 10 @@ "CNY" :> 0 @@ "JPY" :> 1500),
      ("USD" :> 10 @@ "JPY" :> 1500) }

NoTable == << >>
RatesOutcome(kind, table) == [ kind |-> kind, table |-> table ]

\* how getExchangeRates can end: the request fails, the body is no JSON, the JSON
\* has no rates (undefined is returned), or a table is returned
RatesOutcomes ==
    { RatesOutcome("fetchFail", NoTable), RatesOutcome("parseFail", NoTable),
      RatesOutcome("noRates", NoTable) }
    \cup { RatesOutcome("ok", t) : t \in RateTables }

\* line 371: rates.CNY.toFixed(4) raises a TypeError
NoCNYRate(r) == r.kind = "noRates" \/ (r.kind = "ok" /\ Lookup(r.table, "CNY") = Undefined)

\* the regions parseApplePricing can return
ScrapeRegions ==
    { Region(<<"A","A">>, <<"A","a">>, "CNY", << Raw(P50, 6000) >>),
      Region(<<"B","B">>, <<"B","b">>, "CNY", << Raw(P50, 6006), Raw(P200, 21000) >>),
      Region(<<"C","C">>, <<"C","c">>, "USD", << Raw(P50, 990) >>),
      Region(<<"D","D">>, <<"D","d">>, "JPY", << Raw(P200, 450000), Raw(P50, 150000) >>),
      Region(<<"E","E">>, <<"E","e">>, "USD", << Raw(P200, 2990) >>),
      Region(<<"F","F">>, <<"F","f">>, "CNY", << Raw(P50, 0) >>),
      Region(<<"G","G">>, <<"G","g">>, "XXX", << Raw(P50, 7200) >>) }

ScrapeLists == UNION { [ 1..n -> ScrapeRegions ] : n \in 0..MaxScraped }

Scrape(kind, rs) == [ kind |-> kind, regions |-> rs ]

\* how the scrape can end: fetchURL rejects, parseApplePricing raises, or a list
ScrapeOutcomes ==
    { Scrape("fetchFail", << >>), Scrape("parseThrow", << >>) }
    \cup { Scrape("ok", l) : l \in ScrapeLists }

NoFile == [ exists |-> FALSE, regions |-> << >> ]

NoConversion == [ done |-> FALSE, value |-> Rat(0, 1) ]
\* fetchURL has not been called
URLs == { "u0", "u1", "u2" }
FetchIdle ==
    /\ server = [ u \in URLs |-> [ kind |-> "error" ] ]
    /\ fpc = "off"
    /\ furl = "u0"
    /\ promise = "none"
    /\ requests = 0
    /\ idleSocket = FALSE

ConvertIdle ==
    /\ convIn = [ price |-> 0, currency |-> "CNY", rates |-> NoTable ]
    /\ convOut = NoConversion

CollectIdle ==
    /\ mpc = "off"
    /\ isDryRun = FALSE
    /\ ratesOutcome = RatesOutcome("none", NoTable)
    /\ scraped = Scrape("none", << >>)
    /\ sourceLog = << >>
    /\ regions = << >>
    /\ converted = << >>
    /\ dataset = << >>
    /\ outDirExists = FALSE
    /\ outFile = NoFile
    /\ writeResult = "none"
    /\ exitCode = Undefined
    /\ ConvertIdle
    /\ FetchIdle

\* lines 364-371: the flag, the rates, and the first use of rates.CNY
GetRates ==
    /\ mpc = "start"
    /\ \E dry \in BOOLEAN, r \in RatesOutcomes :
          /\ isDryRun' = dry
          /\ ratesOutcome' = r
          /\ IF r.kind # "ok" \/ NoCNYRate(r)
             THEN mpc' = "exited" /\ exitCode' = 1
             ELSE mpc' = "source" /\ exitCode' = exitCode
    /\ UNCHANGED << scraped, sourceLog, regions, converted, dataset, outDirExists, outFile, writeResult >>
    /\ UNCHANGED << qvars, hvars, fvars >>

\* the price source that takes an empty scrape for a result
PriceSourceNoEmptyCheck ==
    /\ mpc = "source"
    /\ \E s \in ScrapeOutcomes :
          /\ scraped' = s
          /\ IF s.kind = "ok"
             THEN regions' = s.regions /\ sourceLog' = << "scrape" >>
             ELSE regions' = getFallbackData /\ sourceLog' = << "scrape", "fallback" >>
    /\ mpc' = "normalize"
    /\ UNCHANGED << isDryRun, ratesOutcome, converted, dataset, outDirExists, outFile, writeResult, exitCode >>
    /\ UNCHANGED << qvars, hvars, fvars >>

\* lines 374-389: the scrape, and the fallback table when it fails or is empty
PriceSource ==
    /\ mpc = "source"
    /\ \E s \in ScrapeOutcomes :
          /\ scraped' = s
          /\ IF s.kind = "ok" /\ Len(s.regions) # 0
             THEN regions' = s.regions /\ sourceLog' = << "scrape" >>
             ELSE regions' = getFallbackData /\ sourceLog' = << "scrape", "fallback" >>
    /\ mpc' = "normalize"
    /\ UNCHANGED << isDryRun, ratesOutcome, converted, dataset, outDirExists, outFile, writeResult, exitCode >>
    /\ UNCHANGED << qvars, hvars, fvars >>

\* lines 392-409: conversion to CNY, rounding, ranking
NormalizeStep ==
    /\ mpc = "normalize"
    /\ converted' = Conversions(regions, ratesOutcome.table)
    /\ dataset' = SortDataset(Normalize(regions, ratesOutcome.table))
    /\ mpc' = "output"
    /\ UNCHANGED << isDryRun, ratesOutcome, scraped, sourceLog, regions, outDirExists, outFile, writeResult, exitCode >>
    /\ UNCHANGED << qvars, hvars, fvars >>

\* the output step that swallows a failed write
OutputStepSwallow ==
    /\ mpc = "output"
    /\ IF isDryRun
       THEN writeResult' = "preview" /\ UNCHANGED << outDirExists, outFile >>
       ELSE \E mkdirOK \in BOOLEAN, writeOK \in BOOLEAN :
               IF ~outDirExists /\ ~mkdirOK
               THEN writeResult' = "mkdirFail" /\ UNCHANGED << outDirExists, outFile >>
               ELSE IF ~writeOK
               THEN writeResult' = "writeFail" /\ outDirExists' = TRUE /\ UNCHANGED outFile
               ELSE /\ writeResult' = "written" /\ outDirExists' = TRUE
                    /\ outFile' = [ exists |-> TRUE, regions |-> dataset ]
    /\ exitCode' = 0
    /\ mpc' = "exited"
    /\ UNCHANGED << isDryRun, ratesOutcome, scraped, sourceLog, regions, converted, dataset >>
    /\ UNCHANGED << qvars, hvars, fvars >>

\* lines 411-431: the preview, or mkdirSync and writeFileSync; what they raise is
\* caught by the outer catch, which exits with 1
OutputStep ==
    /\ mpc = "output"
    /\ IF isDryRun
       THEN writeResult' = "preview" /\ UNCHANGED << outDirExists, outFile >>
       ELSE \E mkdirOK \in BOOLEAN, writeOK \in BOOLEAN :
               IF ~outDirExists /\ ~mkdirOK
               THEN writeResult' = "mkdirFail" /\ UNCHANGED << outDirExists, outFile >>
               ELSE IF ~writeOK
               THEN writeResult' = "writeFail" /\ outDirExists' = TRUE /\ UNCHANGED outFile
               ELSE /\ writeResult' = "written" /\ outDirExists' = TRUE
                    /\ outFile' = [ exists |-> TRUE, regions |-> dataset ]
    /\ exitCode' = IF writeResult' \in { "mkdirFail", "writeFail" } THEN 1 ELSE 0
    /\ mpc' = "exited"
    /\ UNCHANGED << isDryRun, ratesOutcome, scraped, sourceLog, regions, converted, dataset >>
    /\ UNCHANGED << qvars, hvars, fvars >>

QueryIdle ==
    /\ now = StartMs
    /\ dirExists = FALSE
    /\ cache = NoCache
    /\ localFile = Null
    /\ pc = "off"
    /\ argv = << >>
    /\ mtime = 0
    /\ attempts = << >>
    /\ cache0 = NoCache
    /\ wrote = << >>
    /\ result = NullValue
    /\ output = NoOutput
    /\ prev = NoPrev
    /\ faults = { }

InitCollect ==
    /\ QueryIdle
    /\ mpc = "start"
    /\ isDryRun = FALSE
    /\ ratesOutcome = RatesOutcome("none", NoTable)
    /\ scraped = Scrape("none", << >>)
    /\ sourceLog = << >>
    /\ regions = << >>
    /\ converted = << >>
    /\ dataset = << >>
    /\ outDirExists \in BOOLEAN
    /\ outFile = NoFile
    /\ writeResult = "none"
    /\ exitCode = Undefined
    /\ ConvertIdle
    /\ FetchIdle

NextCollect ==
    \/ GetRates
    \/ PriceSource
    \/ NormalizeStep
    \/ OutputStep

SpecCollect == InitCollect /\ [][NextCollect]_vars

(* ---------------------- convertToCNY, called alone --------------------- *)
ConvertPrices == { 0, 4, 990, 6006, 150000 }
ConvertCurrencies == { "CNY", "USD", "JPY", "XXX" }
ConvertTables == RateTables \cup { NoTable, ("CNY" :> 72) }

ConvertCall ==
    /\ ~convOut.done
    /\ convOut' = [ done |-> TRUE, value |-> convertToCNY(convIn.price, convIn.currency, convIn.rates) ]
    /\ UNCHANGED convIn
    /\ UNCHANGED << qvars, cvars, fvars >>

InitConvert ==
    /\ QueryIdle
    /\ FetchIdle
    /\ mpc = "off"
    /\ isDryRun = FALSE
    /\ ratesOutcome = RatesOutcome("none", NoTable)
    /\ scraped = Scrape("none", << >>)
    /\ sourceLog = << >>
    /\ regions = << >>
    /\ converted = << >>
    /\ dataset = << >>
    /\ outDirExists = FALSE
    /\ outFile = NoFile
    /\ writeResult = "none"
    /\ exitCode = Undefined
    /\ convIn \in [ price : ConvertPrices, currency : ConvertCurrencies, rates : ConvertTables ]
    /\ convOut = NoConversion

NextConvert == ConvertCall

SpecConvert == InitConvert /\ [][NextConvert]_vars

(* ------------------------------ fetchURL ------------------------------ *)
\* the requests of one fetchURL chain are counted up to this number
MaxRequests == 3

\* how the server can answer a request: the body with status 200; a 3xx status with a
\* location header, the connection closed or kept open afterwards; another status (or
\* a 3xx without location); a connection error; no answer within CONFIG.timeout
Responses ==
    { [ kind |-> k ] : k \in { "ok", "status", "error", "timeout" } }
    \cup { [ kind |-> "redirect", to |-> u, keepOpen |-> b ] : u \in URLs, b \in BOOLEAN }

\* a promise settles once
Settle(p, outcome) == IF p = "pending" THEN outcome ELSE p

\* line 63 and line 73: https.get has made a request; the connection is set up and the
\* request sent, or the 'error' event rejects
Connect ==
    /\ fpc = "connect"
    /\ IF server[furl].kind = "error"
       THEN fpc' = "ended" /\ promise' = Settle(promise, "rejected")
       ELSE fpc' = "request" /\ UNCHANGED promise
    /\ UNCHANGED << server, furl, requests, idleSocket >>
    /\ UNCHANGED << qvars, cvars, hvars >>

\* lines 63-78: the request in flight ends. A redirect calls fetchURL(location), which
\* makes the next request and whose outcome becomes this call's; the redirect response
\* itself is left unread. Status 200 resolves with the body; another status or the
\* timeout rejects. The requests are counted up to MaxRequests.
Respond ==
    /\ fpc = "request"
    /\ LET r == server[furl]
       IN  IF r.kind = "redirect"
           THEN /\ fpc' = "connect"
                /\ furl' = r.to
                /\ requests' = IF requests < MaxRequests THEN requests + 1 ELSE requests
                /\ idleSocket' = (idleSocket \/ r.keepOpen)
                /\ UNCHANGED promise
           ELSE /\ fpc' = "ended"
                /\ promise' = Settle(promise, IF r.kind = "ok" THEN "resolved" ELSE "rejected")
                /\ UNCHANGED << furl, requests, idleSocket >>
    /\ UNCHANGED server
    /\ UNCHANGED << qvars, cvars, hvars >>

\* lines 74-77: the socket of a redirect response that nobody reads stays idle for
\* CONFIG.timeout; that request's promise is rejected, and so is every caller's
IdleTimeout ==
    /\ idleSocket
    /\ idleSocket' = FALSE
    /\ promise' = Settle(promise, "rejected")
    /\ UNCHANGED << server, fpc, furl, requests >>
    /\ UNCHANGED << qvars, cvars, hvars >>

\* fetchURL(u0) has been called, whatever the server does
InitFetch ==
    /\ QueryIdle
    /\ mpc = "off"
    /\ isDryRun = FALSE
    /\ ratesOutcome = RatesOutcome("none", NoTable)
    /\ scraped = Scrape("none", << >>)
    /\ sourceLog = << >>
    /\ regions = << >>
    /\ converted = << >>
    /\ dataset = << >>
    /\ outDirExists = FALSE
    /\ outFile = NoFile
    /\ writeResult = "none"
    /\ exitCode = Undefined
    /\ ConvertIdle
    /\ server \in [ URLs -> Responses ]
    /\ fpc = "connect"
    /\ furl = "u0"
    /\ promise = "pending"
    /\ requests = 1
    /\ idleSocket = FALSE

NextFetch == Connect \/ Respond \/ IdleTimeout

\* every request made is sent or fails, every request sent ends (with a response or
\* the timeout of CONFIG.timeout), and an idle socket times out
SpecFetch ==
    /\ InitFetch
    /\ [][NextFetch]_vars
    /\ WF_vars(Connect) /\ WF_vars(Respond) /\ WF_vars(IdleTimeout)

(* ----------------------- the inputs of the model ---------------------- *)
\* the argument lists run is called with
Argv ==
    { << >>,
      << <<"h","e","l","p">> >>,
      << <<"u","s">> >>,
      << <<"5","0","G","B">>, <<"J","P">> >>,
      << <<" ","s","t"," ">> >> }

\* what fetchRemote can return: null (curl failed) or the response text
RemoteResults == Texts \cup { Null }

\* further argument lists, for run called on what getPriceData can return
RunArgv ==
    (Argv \ { << <<"h","e","l","p">> >> })
    \cup { << <<"2","0","0","g","b">> >>,
           << <<"2","0","0","G","B"," ","c","n">> >>,
           << <<"j","p">>, <<"5","0","g","b">> >>,
           << <<"z","z">> >>,
           << <<"a">> >>,
           << <<"2","t","b">>, <<"i","n">> >> }

(* ---------------------- getPriceData, step by step -------------------- *)
\* what the getPriceData call that has just returned wrote to the cache, when its
\* writeFile call succeeded: the text, the time of the write, and the data returned;
\* a run that only showed the help leaves it as it was
PrevWrite ==
    IF pc = "done" /\ Len(attempts) = 0 THEN prev
    ELSE IF pc = "done" /\ Len(wrote) = 1 /\ wrote[1].ok
    THEN [ set |-> TRUE, text |-> wrote[1].text, at |-> cache.mtime, data |-> result ]
    ELSE NoPrev

\* run, lines 756-782: help returns at once, otherwise getPriceData is called
Run(a) ==
    /\ pc \in { "idle", "done" }
    /\ argv' = a
    /\ attempts' = << >>
    /\ result' = NullValue
    /\ mtime' = 0
    /\ cache0' = cache
    /\ wrote' = << >>
    /\ IF IsHelp(a)
       THEN pc' = "done" /\ output' = helpOutput
       ELSE pc' = "enter" /\ output' = NoOutput
    /\ prev' = PrevWrite
    /\ faults' = { }
    /\ UNCHANGED << now, dirExists, cache, localFile >>
    /\ UNCHANGED << cvars, hvars, fvars >>

\* lines 589-597: ensureDir, then the freshness check on the cache file's mtime
Enter ==
    /\ pc = "enter"
    /\ \E mkdirOK \in BOOLEAN, statOK \in BOOLEAN :
          /\ dirExists' = ensureDir(dirExists, mkdirOK)
          /\ mtime' = getFileMtime(cache, statOK)
          /\ faults' = IF cache.exists /\ ~statOK THEN { "stat" } ELSE { }
          /\ IF IsFresh(now, getFileMtime(cache, statOK))
             THEN pc' = "fresh" /\ UNCHANGED attempts
             ELSE pc' = "local" /\ attempts' = Append(attempts, Attempt("cache", Null))
    /\ UNCHANGED << now, cache, localFile, argv, cache0, wrote, result, output >>
    /\ UNCHANGED prev
    /\ UNCHANGED << cvars, hvars, fvars >>

\* lines 598-605: the fresh cache is read and parsed
FreshStep ==
    /\ pc = "fresh"
    /\ \E readOK \in BOOLEAN :
          LET cached == readFile(cache.exists, cache.content, readOK)
          IN  /\ attempts' = Append(attempts, Attempt("cache", cached))
              /\ faults' = faults \cup (IF cache.exists /\ ~readOK THEN { "read" } ELSE { })
              /\ IF Truthy(cached) /\ JSONParse(cached).ok
                 THEN pc' = "resolved" /\ result' = JSONParse(cached).val
                 ELSE pc' = "local" /\ UNCHANGED result
    /\ UNCHANGED << now, dirExists, cache, localFile, argv, mtime, cache0, wrote, output >>
    /\ UNCHANGED prev
    /\ UNCHANGED << cvars, hvars, fvars >>

\* the bundled step without its writeFile call
LocalStepNoWrite ==
    /\ pc = "local"
    /\ \E readOK \in BOOLEAN :
          LET local == readFile(localFile # Null, localFile, readOK)
          IN  /\ attempts' = Append(attempts, Attempt("local", local))
              /\ IF Truthy(local) /\ JSONParse(local).ok
                 THEN result' = JSONParse(local).val /\ pc' = "resolved"
                 ELSE pc' = "remote" /\ UNCHANGED result
    /\ UNCHANGED << now, dirExists, cache, localFile, argv, mtime, cache0, wrote, output >>
    /\ UNCHANGED << prev, faults >>
    /\ UNCHANGED << cvars, hvars, fvars >>

\* lines 609-621: the bundled file is read, parsed and written to the cache
LocalStep ==
    /\ pc = "local"
    /\ \E readOK \in BOOLEAN, writeOK \in BOOLEAN :
          LET local == readFile(localFile # Null, localFile, readOK)
          IN  /\ attempts' = Append(attempts, Attempt("local", local))
              /\ IF Truthy(local) /\ JSONParse(local).ok
                 THEN /\ cache' = writeFile(cache, dirExists, local, now, writeOK)
                      /\ wrote' = Append(wrote, Written(local, dirExists, writeOK))
                      /\ result' = JSONParse(local).val
                      /\ pc' = "resolved"
                 ELSE pc' = "remote" /\ UNCHANGED << cache, wrote, result >>
    /\ UNCHANGED << now, dirExists, localFile, argv, mtime, cache0, output >>
    /\ UNCHANGED << prev, faults >>
    /\ UNCHANGED << cvars, hvars, fvars >>

\* the remote step with the response written to the cache before it is parsed
RemoteStepWriteFirst ==
    /\ pc = "remote"
    /\ \E remote \in RemoteResults, writeOK \in BOOLEAN :
          /\ attempts' = Append(attempts, Attempt("remote", remote))
          /\ IF Truthy(remote)
             THEN /\ cache' = writeFile(cache, dirExists, remote, now, writeOK)
                  /\ wrote' = Append(wrote, Written(remote, dirExists, writeOK))
             ELSE UNCHANGED << cache, wrote >>
          /\ IF Truthy(remote) /\ JSONParse(remote).ok
             THEN result' = JSONParse(remote).val /\ pc' = "resolved"
             ELSE pc' = "stale" /\ UNCHANGED result
    /\ UNCHANGED << now, dirExists, localFile, argv, mtime, cache0, output >>
    /\ UNCHANGED << prev, faults >>
    /\ UNCHANGED << cvars, hvars, fvars >>

\* lines 624-633: the remote copy is fetched, parsed and written to the cache
RemoteStep ==
    /\ pc = "remote"
    /\ \E remote \in RemoteResults, writeOK \in BOOLEAN :
          /\ attempts' = Append(attempts, Attempt("remote", remote))
          /\ IF Truthy(remote) /\ JSONParse(remote).ok
             THEN /\ cache' = writeFile(cache, dirExists, remote, now, writeOK)
                  /\ wrote' = Append(wrote, Written(remote, dirExists, writeOK))
                  /\ result' = JSONParse(remote).val
                  /\ pc' = "resolved"
             ELSE pc' = "stale" /\ UNCHANGED << cache, wrote, result >>
    /\ UNCHANGED << now, dirExists, localFile, argv, mtime, cache0, output >>
    /\ UNCHANGED << prev, faults >>
    /\ UNCHANGED << cvars, hvars, fvars >>

\* the stale step with JSON.parse outside a try: text that is no JSON raises
StaleStepNoCatch ==
    /\ pc = "stale"
    /\ \E readOK \in BOOLEAN :
          LET expiredCache == readFile(cache.exists, cache.content, readOK)
          IN  /\ attempts' = Append(attempts, Attempt("stale", expiredCache))
              /\ IF Truthy(expiredCache) /\ ~JSONParse(expiredCache).ok
                 THEN pc' = "raised" /\ UNCHANGED result
                 ELSE /\ pc' = "resolved"
                      /\ result' = IF Truthy(expiredCache) THEN JSONParse(expiredCache).val
                                    ELSE NullValue
    /\ UNCHANGED << now, dirExists, cache, localFile, argv, mtime, cache0, wrote, output >>
    /\ UNCHANGED << prev, faults >>
    /\ UNCHANGED << cvars, hvars, fvars >>

\* lines 636-643: the cache is read whatever its age; null when that fails too
StaleStep ==
    /\ pc = "stale"
    /\ \E readOK \in BOOLEAN :
          LET expiredCache == readFile(cache.exists, cache.content, readOK)
          IN  /\ attempts' = Append(attempts, Attempt("stale", expiredCache))
              /\ result' = IF Truthy(expiredCache) /\ JSONParse(expiredCache).ok
                           THEN JSONParse(expiredCache).val
                           ELSE NullValue
    /\ pc' = "resolved"
    /\ UNCHANGED << now, dirExists, cache, localFile, argv, mtime, cache0, wrote, output >>
    /\ UNCHANGED << prev, faults >>
    /\ UNCHANGED << cvars, hvars, fvars >>

\* run, lines 783-842: the result list is built from the data
RunFinish ==
    /\ pc = "resolved"
    /\ output' = RunOutput(argv, result)
    /\ pc' = "done"
    /\ UNCHANGED << now, dirExists, cache, localFile, argv, mtime, attempts, cache0, wrote, result >>
    /\ UNCHANGED << prev, faults >>
    /\ UNCHANGED << cvars, hvars, fvars >>

\* time passes between two queries
Tick ==
    /\ pc \in { "idle", "done" }
    /\ now + TickMs \in Times
    /\ now' = now + TickMs
    /\ UNCHANGED << dirExists, cache, localFile, pc, argv, mtime, attempts, cache0, wrote, result, output >>
    /\ UNCHANGED << prev, faults >>
    /\ UNCHANGED << cvars, hvars, fvars >>

InitMtimes == { StartMs - cacheTTL, StartMs - TickMs }

Init ==
    /\ now = StartMs
    /\ dirExists \in BOOLEAN
    /\ cache \in { NoCache } \cup { File(t, m) : t \in Texts, m \in InitMtimes }
    /\ cache.exists => dirExists
    /\ localFile \in Texts \cup { Null }
    /\ pc = "idle"
    /\ argv = << >>
    /\ mtime = 0
    /\ attempts = << >>
    /\ cache0 = cache
    /\ wrote = << >>
    /\ result = NullValue
    /\ output = NoOutput
    /\ prev = NoPrev
    /\ faults = { }
    /\ CollectIdle

\* run's second half alone, on every document and argument list of the model
InitRun ==
    /\ now = StartMs
    /\ dirExists = FALSE
    /\ cache = NoCache
    /\ localFile = Null
    /\ pc = "resolved"
    /\ argv \in RunArgv
    /\ mtime = 0
    /\ attempts = << >>
    /\ cache0 = NoCache
    /\ wrote = << >>
    /\ result \in { JSONParse(t).val : t \in RunTexts }
    /\ output = NoOutput
    /\ prev = NoPrev
    /\ faults = { }
    /\ CollectIdle

NextRun == RunFinish

SpecRun == InitRun /\ [][NextRun]_vars

Next ==
    \/ \E a \in Argv : Run(a)
    \/ Enter
    \/ FreshStep
    \/ LocalStep
    \/ RemoteStep
    \/ StaleStep
    \/ RunFinish
    \/ Tick

Spec == Init /\ [][Next]_vars


(* ======================= the cache resolver's claims =================== *)
\* the text parses as JSON
Parses(text) == Truthy(text) /\ JSONParse(text).ok

\* the cache file getPriceData found was fresh: younger than the TTL
WasFresh == cache0.exists /\ (now - cache0.mtime) < cacheTTL

\* the stat and the read of the fresh-cache step both succeeded
CacheWasRead == Len(attempts) >= 1 /\ mtime = cache0.mtime /\ attempts[1].text = cache0.content

\* C1: getPriceData tries fresh cache, bundled copy, remote fetch, stale cache in that
\* order, goes on to a source only when every earlier one gave no parseable data,
\* returns what the first parseable source gave (null after all four), reads the
\* cache first only when it is fresh, and with a fresh readable cache of valid JSON
\* returns that JSON with the bundled file unread and fetchRemote not invoked.
C1_OrderedFallback ==
    /\ pc # "raised"
    /\ Len(attempts) <= Len(Sources)
    /\ \A i \in 1..Len(attempts) : attempts[i].src = Sources[i]
    /\ \A i \in 1..(Len(attempts) - 1) : ~attempts[i].ok
    /\ (pc # "done" /\ Len(attempts) >= 1 /\ attempts[1].text # Null) => WasFresh
    /\ pc = "resolved" =>
          /\ Len(attempts) >= 1
          /\ LET last == attempts[Len(attempts)]
             IN  IF last.ok THEN result = JSONParse(last.text).val
                 ELSE Len(attempts) = Len(Sources) /\ result = NullValue
          /\ (WasFresh /\ CacheWasRead /\ Parses(cache0.content)) =>
                /\ attempts = << Attempt("cache", cache0.content) >>
                /\ result = JSONParse(cache0.content).val
                /\ wrote = << >>

\* a fresh cache is returned although a different bundled file is there
C1_Witness ==
    /\ pc = "resolved"
    /\ WasFresh
    /\ attempts = << Attempt("cache", "docA") >>
    /\ localFile = "docB"
    /\ result = JSONParse("docA").val

\* the cache gave nothing at the first step: absent, expired, or fresh but unparseable
CacheMissed == ~WasFresh \/ ~Parses(cache0.content)

\* the bundled file was read and parses
LocalWasRead == Len(attempts) >= 2 /\ attempts[2].text = localFile /\ Parses(localFile)

\* C2 as stated: after a cache miss with a readable, parseable bundled file the
\* bundled data is returned and the cache file's content equals the bundled file's.
C2_AsStated ==
    (pc = "resolved" /\ CacheMissed /\ LocalWasRead) =>
        /\ result = JSONParse(localFile).val
        /\ cache.exists /\ cache.content = localFile

\* C2 amended: after a cache miss with a readable, parseable bundled file the bundled
\* data is returned and the bundled text is written to the cache exactly once; the
\* cache file then holds the bundled text when that write succeeds and is left as it
\* was when the write fails.
C2_Repopulate ==
    (pc = "resolved" /\ CacheMissed /\ LocalWasRead) =>
        /\ result = JSONParse(localFile).val
        /\ Len(attempts) = 2
        /\ Len(wrote) = 1 /\ wrote[1].text = localFile
        /\ wrote[1].ok => cache = File(localFile, now)
        /\ ~wrote[1].ok => cache = cache0

\* an expired cache of other content is replaced by the bundled text
C2_Witness ==
    /\ pc = "resolved"
    /\ cache0.exists /\ cache0.content = "docA" /\ ~WasFresh
    /\ localFile = "docB"
    /\ LocalWasRead
    /\ wrote = << [ text |-> "docB", ok |-> TRUE ] >>
    /\ cache = File("docB", now)

\* C3: getPriceData never raises, and when none of the four sources gives parseable
\* data it returns null, whether or not the cache directory could be created.
C3_TotalFailure ==
    /\ pc # "raised"
    /\ (pc = "resolved" /\ \A i \in 1..Len(attempts) : ~attempts[i].ok) =>
          /\ Len(attempts) = Len(Sources)
          /\ result = NullValue
          /\ wrote = << >>
          /\ cache = cache0

\* all four sources fail, the cache holding text that is no JSON, the directory missing
C3_Witness ==
    /\ pc = "resolved"
    /\ Len(attempts) = Len(Sources)
    /\ \A i \in 1..Len(attempts) : ~attempts[i].ok
    /\ attempts[3].text = "{bad"
    /\ ~dirExists
    /\ result = NullValue

\* the document has every required field the model holds: lastUpdated, regions, and
\* in each region CountryISO, Country, Plans and in each plan Price and PriceInCNY
WellFormed(d) ==
    /\ ~d.isNull
    /\ d.lastUpdated # "undefined"
    /\ d.regionsKind = "array"
    /\ \A i \in 1..Len(d.regions) :
          /\ d.regions[i].CountryISO # UndefStr
          /\ d.regions[i].Country # UndefStr
          /\ d.regions[i].hasPlans
          /\ \A j \in 1..Len(d.regions[i].Plans) :
                /\ d.regions[i].Plans[j].Price # Undefined
                /\ d.regions[i].Plans[j].PriceInCNY # Undefined

\* C4: a stored document that is no JSON or lacks a required field counts as a miss
\* at the step that read it: getPriceData goes on to the next source and never
\* returns such a document.
C4_IncompleteIsMiss ==
    pc = "resolved" =>
        /\ result = NullValue \/ WellFormed(result)
        /\ \A i \in 1..Len(attempts) :
              (Truthy(attempts[i].text) /\ ~JSONParse(attempts[i].text).ok) =>
                  \/ i < Len(attempts)
                  \/ (i = Len(Sources) /\ result = NullValue)

\* C5: run never ends in an unhandled exception, and gives the "no data" item when
\* getPriceData returned null.
C5_RunNeverThrows ==
    pc = "done" =>
        /\ output.kind \in { "help", "error", "notfound", "items" }
        /\ (~IsHelp(argv) /\ result = NullValue) => output = errorOutput


(* ======================= the collection run's claims =================== *)
\* C6 as stated: in a region whose currency is CNY every plan's PriceInCNY equals its
\* Price exactly.
C6_AsStated ==
    mpc = "output" =>
        \A i \in 1..Len(dataset) :
            dataset[i].Currency = "CNY" =>
                \A j \in 1..Len(dataset[i].Plans) :
                    dataset[i].Plans[j].PriceInCNY = dataset[i].Plans[j].Price

\* C6 amended: for a region whose currency is CNY convertToCNY returns the price
\* itself, and the PriceInCNY written is that price rounded to two fraction digits:
\* a whole number of hundredths within half a hundredth of Price, and Price itself
\* whenever Price has at most two fraction digits.
C6_RoundedOnly ==
    mpc = "output" =>
        /\ \A i \in 1..Len(regions) :
              regions[i].Currency = "CNY" =>
                  \A j \in 1..Len(regions[i].Plans) :
                      converted[i][j] = Rat(regions[i].Plans[j].Price, 1)
        /\ \A i \in 1..Len(dataset) :
              dataset[i].Currency = "CNY" =>
                  \A j \in 1..Len(dataset[i].Plans) :
                      LET pl == dataset[i].Plans[j]
                          cent == PriceScale \div 100
                      IN  /\ pl.PriceInCNY % cent = 0
                          /\ 2 * (pl.PriceInCNY - pl.Price) <= cent
                          /\ 2 * (pl.Price - pl.PriceInCNY) < cent
                          /\ (pl.Price % cent = 0) => pl.PriceInCNY = pl.Price

\* a scraped CNY region with a price of three fraction digits and one of two
C6_Witness ==
    /\ mpc = "output"
    /\ sourceLog = << "scrape" >>
    /\ \E i \in 1..Len(dataset) :
          /\ dataset[i].Currency = "CNY"
          /\ dataset[i].Plans[1].Price = 6006
          /\ dataset[i].Plans[1].PriceInCNY = 6010
          /\ dataset[i].Plans[2].PriceInCNY = dataset[i].Plans[2].Price

\* the value x is the number price
SameNumber(x, price) == x.den # 0 /\ x.num = price * x.den

\* C7: when the rate table has no entry for the currency, or none for CNY, and the
\* currency is not CNY itself, convertToCNY returns the price unchanged.
C7_MissingRate ==
    (/\ convOut.done
     /\ \/ Lookup(convIn.rates, convIn.currency) = Undefined
        \/ Lookup(convIn.rates, "CNY") = Undefined) =>
        SameNumber(convOut.value, convIn.price)

\* a currency with a rate, in a table without a CNY rate
C7_Witness ==
    /\ convOut.done
    /\ convIn.currency = "JPY"
    /\ Lookup(convIn.rates, "JPY") = 1500
    /\ Lookup(convIn.rates, "CNY") = Undefined
    /\ convIn.price = 150000
    /\ convOut.value = Rat(150000, 1)

\* the 50GB key the ranking is meant to use: the price, Infinity without the plan
BenchmarkKey(r) ==
    LET i == FindPlan(r.Plans, P50)
    IN  IF i = 0 THEN Key("inf", 0) ELSE Key("num", r.Plans[i].PriceInCNY)

\* the regions of rs with the key k, in their order
WithKey(rs, k) == SelectSeq(rs, LAMBDA r : BenchmarkKey(r) = k)

\* C8: the dataset's regions are in ascending order of the 50GB PriceInCNY, the
\* regions without a 50GB plan after all that have one (a price of 0 included), and
\* regions of equal key in their input order.
C8_Ranked ==
    mpc = "output" =>
        /\ \A i \in 1..Len(dataset) : \A j \in (i + 1)..Len(dataset) :
              Compare(BenchmarkKey(dataset[i]), BenchmarkKey(dataset[j])) <= 0
        /\ \A i \in 1..Len(dataset) :
              WithKey(dataset, BenchmarkKey(dataset[i]))
                  = WithKey(Normalize(regions, ratesOutcome.table), BenchmarkKey(dataset[i]))

\* C9: the price-source step always leaves a non-empty region list and the run goes
\* on to the conversion: the scrape is tried first, its regions are used when it gave
\* any, and the fallback table is used after it when the fetch failed, the parse
\* raised or no region was parsed.
C9_SourceNeverFails ==
    /\ (mpc = "exited" /\ ratesOutcome.kind = "ok" /\ ~NoCNYRate(ratesOutcome)) =>
          Len(sourceLog) > 0 /\ Len(dataset) > 0
    /\ Len(sourceLog) > 0 =>
          /\ mpc \in { "normalize", "output", "exited" }
          /\ Len(regions) > 0
          /\ sourceLog[1] = "scrape"
          /\ IF scraped.kind = "ok" /\ Len(scraped.regions) > 0
             THEN sourceLog = << "scrape" >> /\ regions = scraped.regions
             ELSE sourceLog = << "scrape", "fallback" >> /\ regions = getFallbackData

\* the parse gave no region and the fallback table stands in
C9_Witness ==
    /\ mpc = "normalize"
    /\ scraped = Scrape("ok", << >>)
    /\ sourceLog = << "scrape", "fallback" >>
    /\ regions = getFallbackData

\* C10 as stated: the run exits with a non-zero code exactly when the exchange
\* rates could not be obtained (getExchangeRates failed, or what it returned holds no
\* CNY rate), whatever happens in the later steps.
C10_AsStated ==
    mpc = "exited" =>
        (exitCode # 0 <=>
            (ratesOutcome.kind \in { "fetchFail", "parseFail" } \/ NoCNYRate(ratesOutcome)))

\* C10 amended: the run exits with 1 exactly when getExchangeRates failed, or gave no
\* table or a table without a CNY rate, or (outside a dry run) creating the output
\* directory or writing the output file failed; otherwise it exits with 0, however
\* the scrape ended.
C10_ExitCode ==
    mpc = "exited" =>
        /\ exitCode \in { 0, 1 }
        /\ exitCode = 1 <=>
              \/ ratesOutcome.kind \in { "fetchFail", "parseFail" }
              \/ NoCNYRate(ratesOutcome)
              \/ writeResult \in { "mkdirFail", "writeFail" }
        /\ isDryRun => writeResult \in { "none", "preview" }
        /\ writeResult = "written" => outFile = [ exists |-> TRUE, regions |-> dataset ]

\* the rates were obtained, the scrape failed, the write failed: exit code 1
C10_Witness ==
    /\ mpc = "exited"
    /\ ratesOutcome.kind = "ok"
    /\ scraped.kind = "fetchFail"
    /\ writeResult = "writeFail"
    /\ exitCode = 1

(* ========================= the query's claims ========================== *)
\* the positions of the regions the search token matches
SearchMatches(d, q) == { i \in 1..Len(d.regions) : RegionMatches(d.regions[i], q) }

\* the item of one plan of a region: identifier, tier, rank, converted price
PlanItem(r, plan, rank) ==
    [ uid |-> r.CountryISO \o << "-" >> \o plan.Name, plan |-> plan.Name,
      rank |-> rank, arg |-> plan.PriceInCNY ]

\* run was called on a dataset with a search token that matches one region only
SingleSearched ==
    /\ pc = "done"
    /\ ~IsHelp(argv)
    /\ WellFormed(result)
    /\ Parsed(argv).searchQuery # NoQuery
    /\ Cardinality(SearchMatches(result, Parsed(argv).searchQuery)) = 1

Searched(d, q) ==
    IF q = NoQuery THEN d.regions
    ELSE SelectSeq(d.regions, LAMBDA r : RegionMatches(r, q))

\* no part of the query is a tier keyword
NoTierKeyword(a) ==
    LET parts == Split(Query(a), << >>)
    IN  \A i \in 1..Len(parts) : ~IsPlanType(parts[i])

\* the tier the ranking is about
Tier(a) == IF NoTierKeyword(a) THEN P50 ELSE Parsed(a).selectedPlan

HasTier(r, tier) == \E j \in 1..Len(r.Plans) : r.Plans[j].Name = tier

\* run was called on a dataset and the ranking applies: some region is selected, and
\* not a single searched one
RankingCase ==
    /\ pc = "done"
    /\ ~IsHelp(argv)
    /\ WellFormed(result)
    /\ Len(Searched(result, Parsed(argv).searchQuery)) > 0
    /\ ~(Parsed(argv).searchQuery # NoQuery
            /\ Len(Searched(result, Parsed(argv).searchQuery)) = 1)

\* the list is n ranked items of the tier, ascending by price, and then the row that
\* shows the dataset's update time
RankedList(n, tier) ==
    /\ output.kind = "items"
    /\ Len(output.items) = n + 1
    /\ output.items[n + 1] = UpdatedItem
    /\ \A k \in 1..n : output.items[k].rank = ToString(k) /\ output.items[k].plan = tier
    /\ \A k \in 1..(n - 1) : output.items[k].arg <= output.items[k + 1].arg

\* C12 as stated: the ranking lists the whole filtered region set, ascending by the
\* selected tier's PriceInCNY with the regions lacking the tier last, each item's rank
\* its 1-based position, the tier being 50GB when no tier keyword was given.
C12_AsStated ==
    RankingCase =>
        RankedList(Len(Searched(result, Parsed(argv).searchQuery)), Tier(argv))

\* C12: when at least one region is selected and the selection is not a single searched
\* region, the items are those of the selected regions that have the tier (regions
\* lacking it give no item), ascending by the tier's PriceInCNY with ties in input
\* order, each item's rank its 1-based position; the tier is 50GB when no tier keyword
\* was given; the row that shows the dataset's update time comes last.
C12_RankedWithTier ==
    RankingCase =>
        LET tier == Tier(argv)
            with == SelectSeq(Searched(result, Parsed(argv).searchQuery),
                              LAMBDA r : HasTier(r, tier))
            n == Len(with)
            plan(r) == r.Plans[FindPlan(r.Plans, tier)]
        IN  /\ RankedList(n, tier)
            /\ \E f \in [ 1..n -> 1..n ] :
                  /\ \A k, l \in 1..n : k # l => f[k] # f[l]
                  /\ \A k \in 1..n :
                        output.items[k] = PlanItem(with[f[k]], plan(with[f[k]]), ToString(k))
                  /\ \A k, l \in 1..n :
                        (k < l /\ output.items[k].arg = output.items[l].arg) => f[k] < f[l]

\* no token at all: the region without a 50GB plan gives no item, the free plan is first
C12_Witness ==
    /\ RankingCase
    /\ argv = << >>
    /\ result.regions = << IND, US, TR, CN >>
    /\ Len(output.items) = 4
    /\ output.items[1].uid = << "T","R","-","5","0","G","B" >>
    /\ output.items[3].uid = << "U","S","-","5","0","G","B" >>
    /\ output.items[3].rank = "3"

(* ===================== the cache file's claims ======================== *)
\* a getPriceData call has returned, and the step it ended in
Returned == pc \in { "resolved", "done" } /\ Len(attempts) > 0
EndedIn == attempts[Len(attempts)].src

\* a call that ended in the fresh-cache step, the stale-cache step or total failure
\* made no writeFile call and left the cache file as it found it
ReadOnlyEnd ==
    (Returned /\ EndedIn \in { "cache", "stale" }) => (wrote = << >> /\ cache = cache0)

\* one step of the resolver, as far as the cache file goes: writeFile is called only by
\* the bundled and the remote step, with the text that step has just parsed and is
\* returning, and the file changes only by such a call, to exactly that text
CacheStep ==
    LET a == attempts'[Len(attempts')]
    IN  /\ (wrote' # wrote /\ wrote' # << >>) =>
              /\ pc \in { "local", "remote" } /\ pc' = "resolved"
              /\ a.src = pc
              /\ Truthy(a.text) /\ JSONParse(a.text).ok
              /\ result' = JSONParse(a.text).val
              /\ \E ok \in BOOLEAN : wrote' = Append(wrote, [ text |-> a.text, ok |-> ok ])
        /\ cache' # cache =>
              /\ wrote' # wrote /\ wrote' # << >>
              /\ wrote'[Len(wrote')].ok
              /\ cache' = [ exists |-> TRUE, content |-> a.text, mtime |-> now ]

\* C13: over any sequence of getPriceData calls, writeFile is only ever given text the
\* resolver has just parsed as JSON, the file's content after a write is that text and
\* nothing else, and a call that ends in the fresh-cache step, the stale-cache step or
\* total failure leaves the cache file unchanged.
C13_WritesParsed == [] ReadOnlyEnd /\ [][CacheStep]_vars

\* a second call replaces a cache file written by the first with the remote text
C13_Witness ==
    /\ Returned
    /\ EndedIn = "remote"
    /\ cache0 = File("docA", StartMs)
    /\ wrote = << [ text |-> "docB", ok |-> TRUE ] >>
    /\ cache = File("docB", now)

(* ========================== fetchURL's claims ========================= *)
\* C14: every call to fetchURL settles (resolves with the body or rejects with an
\* error) after a bounded number of requests, whatever the server does, a server that
\* answers every request with a redirect included.
C14_Settles == <>(promise \in { "resolved", "rejected" })

(* ===================== two calls, one after the other ================= *)
\* getPriceData has been entered after a call that returned data through the bundled or
\* the remote step and wrote it to the cache, less than cacheTTL after that write, and
\* no access to the cache file has failed in this call
FollowsWrite ==
    /\ pc \in { "fresh", "local", "remote", "stale", "resolved" }
    /\ prev.set
    /\ (now - prev.at) < cacheTTL
    /\ faults = { }

\* C15: a call that follows, by less than cacheTTL, a call whose cache write succeeded
\* never gets past the fresh-cache step: it returns the data the call before returned,
\* having read the cache file only, with no read of the bundled file, no fetchRemote
\* call and no write.
C15_FreshAfterWrite ==
    FollowsWrite =>
        /\ pc \in { "fresh", "resolved" }
        /\ cache = cache0 /\ cache.content = prev.text
        /\ wrote = << >>
        /\ pc = "resolved" =>
              /\ attempts = << [ src |-> "cache", text |-> prev.text, ok |-> TRUE ] >>
              /\ result = prev.data

\* the first call got docA from the remote copy; half a TTL later the second call
\* returns docA from the cache although the bundled file now reads as docB
C15_Witness ==
    /\ FollowsWrite
    /\ pc = "resolved"
    /\ prev.text = "docA"
    /\ localFile = "docB"
    /\ now = prev.at + TickMs
    /\ result = JSONParse("docA").val
    /\ Len(attempts) = 1

====
